---- MODULE Spec2Model ----
(***************************************************************************)
(* State machine of the Seed TodoMVC application in                        *)
(* src/Rust/project/src/lib.rs: the Model (todos, new_todo_title,          *)
(* selected_todo, filter), init/add_mock_data, and one action per Msg      *)
(* variant handled by update.                                              *)
(*                                                                         *)
(* Strings are sequences of one-character strings so that str::trim is     *)
(* computed.  A Ulid is the integer  timestamp * RandSpace + random  (the  *)
(* crate packs a 48-bit millisecond timestamp above 80 random bits and     *)
(* orders ids as integers).  Ulid::new() reads the clock, taken to be      *)
(* non-decreasing, and draws the random part; a repeated draw within one   *)
(* millisecond (probability 2^-80) is left out, the order of two draws     *)
(* within one millisecond is not.                                          *)
(***************************************************************************)
EXTENDS Integers, Sequences, FiniteSets, TLC

\* ---- bounds ----
MaxTime == 2        \* clock readings are 0..MaxTime
MaxSeedTime == 1    \* clock readings while init runs are 0..MaxSeedTime
RandSpace == 2      \* random parts are 0..RandSpace-1
MaxCreated == 5     \* ids issued in a session (4 seeded + created)

\* Option<T>: None is the empty sequence, Some(x) the one-element sequence.
None == <<>>

Some(x) == <<x>>
WhiteSpace == {" ", "\t", "\n"}

\* The texts an input element delivers: empty, whitespace only, and padded
\* text with whitespace inside.
Texts == {<<>>, <<" ", "\t">>, <<" ", "a", " ", "b", "\n">>}

\* trip is history: Some of the todo (id and title at that moment) named by a
\* SelectTodo(Some(x)) with x a key, kept while the next message is
\* SaveSelectedTodo, None otherwise.
VARIABLES todos, new_todo_title, selected_todo, filter, created, msg, trip

vars == <<todos, new_todo_title, selected_todo, filter, created, msg, trip>>

\* ---- helpers ----
Range(s) == {s[i] : i \in DOMAIN s}

UlidSpace == 0..((MaxTime + 1) * RandSpace - 1)

Timestamp(id) == id \div RandSpace

OptUlid == {None} \cup {Some(id) : id \in UlidSpace}

LastTime(issued) ==
    IF issued = <<>> THEN 0 ELSE Timestamp(issued[Len(issued)])

\* The values Ulid::new() can return after the ids in issued were drawn, when
\* the clock reads at most limit.
NewUlid(issued, limit) ==
    {id \in UlidSpace : /\ Timestamp(id) \in LastTime(issued)..limit
                        /\ id \notin Range(issued)}

RECURSIVE trim_start(_)
trim_start(s) ==
    IF s # <<>> /\ Head(s) \in WhiteSpace THEN trim_start(Tail(s)) ELSE s

RECURSIVE trim_end(_)
trim_end(s) ==
    IF s # <<>> /\ s[Len(s)] \in WhiteSpace
    THEN trim_end(SubSeq(s, 1, Len(s) - 1)) ELSE s

trim_start_only(s) == trim_start(s)

trim(s) == trim_end(trim_start(s))

Todo(id, title, completed) == [id |-> id, title |-> title, completed |-> completed]

\* BTreeMap::insert
insert(map, k, v) == [x \in DOMAIN map \cup {k} |-> IF x = k THEN v ELSE map[x]]

\* A removal that also drops the entries ordered before the key.
remove_split_off(map, k) == [x \in {y \in DOMAIN map : y > k} |-> map[x]]

\* BTreeMap::remove
remove(map, k) == [x \in DOMAIN map \ {k} |-> map[x]]

Paths == {"/", "/active", "/completed"}

\* ---- init ----
\* add_mock_data storing the second todo with the id of the first.
add_mock_data_copied_id(id_a, id_b, id_c, id_d) ==
    insert(insert(insert(insert(<<>>,
        id_a, Todo(id_a, <<"D","o"," ","R","i","g","h","t">>, FALSE)),
        id_b, Todo(id_a, <<"B","e"," ","T","h","e"," ","C","r","e","w">>, FALSE)),
        id_c, Todo(id_c, <<"O","w","n"," ","I","t">>, FALSE)),
        id_d, Todo(id_d, <<"C","h","e","w"," ","T","h","e"," ","S","t","r","a","p">>, FALSE))

add_mock_data(id_a, id_b, id_c, id_d) ==
    insert(insert(insert(insert(<<>>,
        id_a, Todo(id_a, <<"D","o"," ","R","i","g","h","t">>, FALSE)),
        id_b, Todo(id_b, <<"B","e"," ","T","h","e"," ","C","r","e","w">>, FALSE)),
        id_c, Todo(id_c, <<"O","w","n"," ","I","t">>, FALSE)),
        id_d, Todo(id_d, <<"C","h","e","w"," ","T","h","e"," ","S","t","r","a","p">>, FALSE))

Init ==
    \E id_a \in NewUlid(<<>>, MaxSeedTime) :
    \E id_b \in NewUlid(<<id_a>>, MaxSeedTime) :
    \E id_c \in NewUlid(<<id_a, id_b>>, MaxSeedTime) :
    \E id_d \in NewUlid(<<id_a, id_b, id_c>>, MaxSeedTime) :
        /\ todos = add_mock_data(id_a, id_b, id_c, id_d)
        /\ new_todo_title = <<>>
        /\ selected_todo = None
        /\ filter = "All"
        /\ created = <<id_a, id_b, id_c, id_d>>
        /\ msg = "Init"
        /\ trip = None

\* ---- update ----
UrlChanged(url) ==
    /\ msg' = "UrlChanged"
    /\ trip' = None
    /\ UNCHANGED <<todos, new_todo_title, selected_todo, filter, created>>

\* NewTodoTitleChanged storing the trimmed text.
NewTodoTitleChanged_trimmed(title) ==
    /\ new_todo_title' = trim(title)
    /\ msg' = "NewTodoTitleChanged"
    /\ trip' = None
    /\ UNCHANGED <<todos, selected_todo, filter, created>>

NewTodoTitleChanged(title) ==
    /\ new_todo_title' = title
    /\ msg' = "NewTodoTitleChanged"
    /\ trip' = None
    /\ UNCHANGED <<todos, selected_todo, filter, created>>

\* CreateTodo testing the untrimmed text for emptiness.
CreateTodo_untrimmed_test ==
    LET title == trim(new_todo_title) IN
    /\ IF new_todo_title # <<>>
       THEN /\ Len(created) < MaxCreated
            /\ \E id \in NewUlid(created, MaxTime) :
                /\ todos' = insert(todos, id, Todo(id, title, FALSE))
                /\ created' = Append(created, id)
            /\ new_todo_title' = <<>>
       ELSE UNCHANGED <<todos, new_todo_title, created>>
    /\ msg' = "CreateTodo"
    /\ trip' = None
    /\ UNCHANGED <<selected_todo, filter>>

CreateTodo ==
    LET title == trim(new_todo_title) IN
    /\ IF title # <<>>
       THEN /\ Len(created) < MaxCreated
            /\ \E id \in NewUlid(created, MaxTime) :
                /\ todos' = insert(todos, id, Todo(id, title, FALSE))
                /\ created' = Append(created, id)
            /\ new_todo_title' = <<>>
       ELSE UNCHANGED <<todos, new_todo_title, created>>
    /\ msg' = "CreateTodo"
    /\ trip' = None
    /\ UNCHANGED <<selected_todo, filter>>

\* ToggleTodo setting the flag instead of negating it.
ToggleTodo_set(id) ==
    /\ IF id \in DOMAIN todos
       THEN todos' = [todos EXCEPT ![id].completed = TRUE]
       ELSE UNCHANGED todos
    /\ msg' = "ToggleTodo"
    /\ trip' = None
    /\ UNCHANGED <<new_todo_title, selected_todo, filter, created>>

ToggleTodo(id) ==
    /\ IF id \in DOMAIN todos
       THEN todos' = [todos EXCEPT ![id].completed = ~todos[id].completed]
       ELSE UNCHANGED todos
    /\ msg' = "ToggleTodo"
    /\ trip' = None
    /\ UNCHANGED <<new_todo_title, selected_todo, filter, created>>

RemoveTodo(id) ==
    /\ todos' = remove(todos, id)
    /\ msg' = "RemoveTodo"
    /\ trip' = None
    /\ UNCHANGED <<new_todo_title, selected_todo, filter, created>>

CheckOrUncheckAll ==
    /\ msg' = "CheckOrUncheckAll"
    /\ trip' = None
    /\ UNCHANGED <<todos, new_todo_title, selected_todo, filter, created>>

\* ClearCompleted with the filter predicate inverted.
ClearCompleted_inverted ==
    /\ todos' = [k \in {x \in DOMAIN todos : todos[x].completed} |-> todos[k]]
    /\ msg' = "ClearCompleted"
    /\ trip' = None
    /\ UNCHANGED <<new_todo_title, selected_todo, filter, created>>

ClearCompleted ==
    /\ todos' = [k \in {x \in DOMAIN todos : ~todos[x].completed} |-> todos[k]]
    /\ msg' = "ClearCompleted"
    /\ trip' = None
    /\ UNCHANGED <<new_todo_title, selected_todo, filter, created>>

SelectTodo(opt_id) ==
    /\ msg' = "SelectTodo"
    /\ trip' = IF opt_id # None /\ opt_id[1] \in DOMAIN todos
               THEN Some([id |-> opt_id[1], title |-> todos[opt_id[1]].title])
               ELSE None
    /\ UNCHANGED <<todos, new_todo_title, selected_todo, filter, created>>

SelectedTodoTitleChanged(title) ==
    /\ msg' = "SelectedTodoTitleChanged"
    /\ trip' = None
    /\ UNCHANGED <<todos, new_todo_title, selected_todo, filter, created>>

\* SaveSelectedTodo committing an empty title when nothing is selected.
SaveSelectedTodo_commit_empty ==
    /\ msg' = "SaveSelectedTodo"
    /\ trip' = IF msg = "SelectTodo" THEN trip ELSE None
    /\ todos' = [k \in DOMAIN todos |-> [todos[k] EXCEPT !.title = <<>>]]
    /\ UNCHANGED <<new_todo_title, selected_todo, filter, created>>

SaveSelectedTodo ==
    /\ msg' = "SaveSelectedTodo"
    /\ trip' = IF msg = "SelectTodo" THEN trip ELSE None
    /\ UNCHANGED <<todos, new_todo_title, selected_todo, filter, created>>

Next ==
    \/ \E url \in Paths : UrlChanged(url)
    \/ \E title \in Texts : NewTodoTitleChanged(title)
    \/ CreateTodo
    \/ \E id \in UlidSpace : ToggleTodo(id)
    \/ \E id \in UlidSpace : RemoveTodo(id)
    \/ CheckOrUncheckAll
    \/ ClearCompleted
    \/ \E opt_id \in OptUlid : SelectTodo(opt_id)
    \/ \E title \in Texts : SelectedTodoTitleChanged(title)
    \/ SaveSelectedTodo

Spec == Init /\ [][Next]_vars

\* ---- view ----
\* BTreeMap::values: the entries in key order.
RECURSIVE values(_)
values(map) ==
    IF DOMAIN map = {} THEN <<>>
    ELSE LET k == CHOOSE x \in DOMAIN map : \A y \in DOMAIN map : x <= y
         IN <<map[k]>> \o values(remove(map, k))

\* The sections under the header rendered whatever the collection holds.
sections_rendered_always(ts) == TRUE

\* view puts the main and footer sections in only for a collection that is
\* not empty.
sections_rendered(ts) == DOMAIN ts # {}

\* all_completed, the checked attribute of the toggle-all input.
view_toggle_all(ts) == \A i \in DOMAIN values(ts) : values(ts)[i].completed

\* A checked toggle-all input is in the view.
toggle_all_checked(ts) == sections_rendered(ts) /\ view_toggle_all(ts)

\* The list items in reverse key order.
view_todo_list_reversed(ts, selected) ==
    LET vs == values(ts) IN
    [i \in DOMAIN vs |->
        LET todo == vs[Len(vs) + 1 - i] IN
        [id |-> todo.id, title |-> todo.title, completed |-> todo.completed,
         editing |-> selected # None /\ selected[1].id = todo.id]]

\* The li items of the todo list: one per todo, in key order.
view_todo_list(ts, selected) ==
    LET vs == values(ts) IN
    [i \in DOMAIN vs |->
        LET todo == vs[i] IN
        [id |-> todo.id, title |-> todo.title, completed |-> todo.completed,
         editing |-> selected # None /\ selected[1].id = todo.id]]

\* completed_count with the predicate inverted.
completed_count_inverted(ts) ==
    Cardinality({i \in DOMAIN values(ts) : ~values(ts)[i].completed})

completed_count(ts) == Cardinality({i \in DOMAIN values(ts) : values(ts)[i].completed})

active_count(ts) == Cardinality(DOMAIN ts) - completed_count(ts)

\* The footer with the singular also for a count of zero.
view_footer_singular_zero(ts, selected_filter) ==
    <<active_count(ts), IF active_count(ts) <= 1 THEN " item left" ELSE " items left">>

\* The todo-count span: the number and the text after it.
view_footer(ts, selected_filter) ==
    <<active_count(ts), IF active_count(ts) = 1 THEN " item left" ELSE " items left">>

\* ---- properties ----
AllWhite(s) == \A k \in 1..Len(s) : s[k] \in WhiteSpace

\* t is s without its leading and trailing whitespace.
IsTrimOf(t, s) ==
    \E i, j \in 0..Len(s) :
        /\ i <= j
        /\ t = SubSeq(s, i + 1, j)
        /\ \A k \in 1..i : s[k] \in WhiteSpace
        /\ \A k \in (j + 1)..Len(s) : s[k] \in WhiteSpace
        /\ t # <<>>
        /\ t[1] \notin WhiteSpace
        /\ t[Len(t)] \notin WhiteSpace

Keys(m) == DOMAIN m

\* C2: CreateTodo with a draft that trims to a non-empty text adds exactly one
\* todo under a fresh id, titled with the trimmed draft and not completed,
\* empties the draft, and leaves the existing todos, the selection and the
\* filter as they were; the number of todos grows by one.
C2_CreateTodoAddsOne ==
    [][(msg' = "CreateTodo" /\ ~AllWhite(new_todo_title)) =>
        /\ \E id \in UlidSpace \ Keys(todos) :
            /\ id \notin Range(created)
            /\ Keys(todos') = Keys(todos) \cup {id}
            /\ todos'[id].id = id
            /\ IsTrimOf(todos'[id].title, new_todo_title)
            /\ todos'[id].completed = FALSE
        /\ \A k \in Keys(todos) : todos'[k] = todos[k]
        /\ new_todo_title' = <<>>
        /\ selected_todo' = selected_todo
        /\ filter' = filter
        /\ Cardinality(Keys(todos')) = Cardinality(Keys(todos)) + 1]_vars

C2_Witness ==
    /\ msg = "CreateTodo"
    /\ new_todo_title = <<>>
    /\ Len(created) = 5
    /\ created[5] \in Keys(todos)
    /\ todos[created[5]] = Todo(created[5], <<"a", " ", "b">>, FALSE)
    /\ Cardinality(Keys(todos)) = 5

\* C3: CreateTodo with an empty or whitespace-only draft changes nothing: no
\* todo is added and the draft keeps its untrimmed value.
C3_CreateTodoBlankIsNoOp ==
    [][(msg' = "CreateTodo" /\ AllWhite(new_todo_title)) =>
        UNCHANGED <<todos, new_todo_title, selected_todo, filter, created>>]_vars

C3_Witness ==
    /\ msg = "CreateTodo"
    /\ new_todo_title = <<" ", "\t">>
    /\ Cardinality(Keys(todos)) = 4

C5_CheckOrUncheckAll ==
    [][msg' = "CheckOrUncheckAll" =>
        /\ Keys(todos') = Keys(todos)
        /\ \A k \in Keys(todos) :
            /\ todos'[k].id = todos[k].id
            /\ todos'[k].title = todos[k].title
        /\ IF \A k \in Keys(todos) : todos[k].completed
           THEN \A k \in Keys(todos') : ~todos'[k].completed
           ELSE \A k \in Keys(todos') : todos'[k].completed]_vars

\* C6: SelectTodo(Some(x)) selects x with its committed title as the draft
\* when x is a key and changes no selection otherwise; SelectTodo(None)
\* clears the selection; the todos are never changed.
C6_SelectTodo ==
    [][msg' = "SelectTodo" => \A opt_id \in OptUlid : SelectTodo(opt_id) =>
        /\ todos' = todos
        /\ IF opt_id = None
           THEN selected_todo' = None
           ELSE IF opt_id[1] \in Keys(todos)
                THEN selected_todo' =
                        Some([id |-> opt_id[1], title |-> todos[opt_id[1]].title])
                ELSE selected_todo' = selected_todo]_vars

C9_ToggleTodo ==
    [][msg' = "ToggleTodo" => \A id \in UlidSpace : ToggleTodo(id) =>
        /\ IF id \in Keys(todos)
           THEN /\ Keys(todos') = Keys(todos)
                /\ todos'[id].completed = ~todos[id].completed
                /\ todos'[id].title = todos[id].title
                /\ todos'[id].id = todos[id].id
                /\ \A k \in Keys(todos) \ {id} : todos'[k] = todos[k]
           ELSE todos' = todos
        /\ UNCHANGED <<new_todo_title, selected_todo, filter>>]_vars

C9_Witness ==
    /\ msg = "ToggleTodo"
    /\ Cardinality(Keys(todos)) = 4
    /\ Cardinality({k \in Keys(todos) : todos[k].completed}) = 1

\* C10: ids are issued once and in increasing order, so the todos of the
\* collection iterate in key order oldest-created first, the seeded ones
\* and those created within one clock reading included.
C10_KeyOrderIsCreationOrder ==
    \A i, j \in 1..Len(created) :
        i < j =>
            /\ created[i] # created[j]
            /\ (created[i] \in Keys(todos) /\ created[j] \in Keys(todos))
                 => created[i] < created[j]

\* C11: SelectTodo(Some(x)) for a key x followed at once by SaveSelectedTodo
\* leaves the title of todo x as it was before the two messages and leaves
\* no selection.
C11_SelectSaveRoundTrip ==
    (msg = "SaveSelectedTodo" /\ trip # None) =>
        /\ trip[1].id \in Keys(todos)
        /\ todos[trip[1].id].title = trip[1].title
        /\ selected_todo = None

C11_Witness ==
    /\ msg = "SaveSelectedTodo"
    /\ trip # None
    /\ trip[1].id \in Keys(todos)
    /\ todos[trip[1].id].title = <<"O", "w", "n", " ", "I", "t">>

\* C13: UrlChanged(url) sets the filter from the path (/active to Active,
\* /completed to Completed, anything else to All) and changes nothing else.
C13_UrlChangedSetsFilter ==
    [][msg' = "UrlChanged" => \A url \in Paths : UrlChanged(url) =>
        /\ filter' = (IF url = "/active" THEN "Active"
                      ELSE IF url = "/completed" THEN "Completed" ELSE "All")
        /\ UNCHANGED <<todos, new_todo_title, selected_todo>>]_vars

\* C14: every todo of the collection has a non-empty title, in every
\* reachable state.
C14_TitlesNonEmpty == \A k \in Keys(todos) : todos[k].title # <<>>

C14_Witness ==
    /\ msg = "CreateTodo"
    /\ new_todo_title = <<" ", "\t">>
    /\ Cardinality(Keys(todos)) = 5

NotCompleted(ts) == {k \in Keys(ts) : ~ts[k].completed}

\* C15: the active and the completed count add up to the number of todos,
\* the active count is the number of todos that are not completed, and
\* neither count is negative.
C15_CountsAddUp ==
    /\ active_count(todos) + completed_count(todos) = Cardinality(Keys(todos))
    /\ active_count(todos) = Cardinality(NotCompleted(todos))
    /\ active_count(todos) >= 0
    /\ completed_count(todos) >= 0

C15_Witness ==
    /\ Cardinality(Keys(todos)) = 3
    /\ Cardinality(NotCompleted(todos)) = 2

Satisfies(f, todo) ==
    CASE f = "All" -> TRUE
      [] f = "Active" -> ~todo.completed
      [] f = "Completed" -> todo.completed

C17_AllCompletedFlag ==
    /\ toggle_all_checked(todos) <=>
          (Cardinality(Keys(todos)) > 0 /\ Cardinality(NotCompleted(todos)) = 0)
    /\ sections_rendered(todos) <=> Cardinality(Keys(todos)) >= 1

C17_Witness ==
    /\ Keys(todos) = {}
    /\ ~toggle_all_checked(todos)
    /\ msg = "RemoveTodo"

\* C18: NewTodoTitleChanged(text) makes the draft the text as given, not
\* trimmed, and leaves the todos, the selection and the filter unchanged.
C18_DraftVerbatim ==
    [][msg' = "NewTodoTitleChanged" => \A text \in Texts : NewTodoTitleChanged(text) =>
        /\ new_todo_title' = text
        /\ UNCHANGED <<todos, selected_todo, filter>>]_vars

C18_Witness ==
    /\ msg = "NewTodoTitleChanged"
    /\ new_todo_title = <<" ", "a", " ", "b", "\n">>

\* C19: the footer shows the active count followed by " item left" for a
\* count of one and by " items left" for every other count, zero included.
C19_FooterLabel ==
    LET n == Cardinality(NotCompleted(todos))
    IN view_footer(todos, filter) =
         <<n, IF n = 1 THEN " item left" ELSE " items left">>

C19_Witness ==
    /\ Keys(todos) # {}
    /\ view_footer(todos, filter) = <<0, " items left">>

\* C20: every entry of the collection is stored under the id of its todo.
C20_KeyIsTodoId == \A k \in Keys(todos) : todos[k].id = k

C20_Witness ==
    /\ msg = "ToggleTodo"
    /\ Len(created) = 5
    /\ created[5] \in Keys(todos)
    /\ todos[created[5]].completed
    /\ todos[created[5]].id = created[5]

====
